---------------------------- MODULE Spec2Model ----------------------------
(***************************************************************************)
(* The game-state machine and per-frame simulation loop of                 *)
(* src/client/game.ts: the key, mouse and animation-frame handlers, the    *)
(* per-tick simulation (update), the session reset (resetGame) and the     *)
(* score store (saveScore / getHighScores over localStorage).              *)
(*                                                                         *)
(* Coordinates are held in sub-pixels (SUBPIXELS per pixel) so that the    *)
(* level speed factor 1 + (level-1)*0.3 of resetGame is an integer number  *)
(* of units per tick.  At level 1 every coordinate is a whole pixel and    *)
(* the model is exact; from level 2 on the code adds the fractional speed  *)
(* in IEEE doubles, and the model is exact only while no comparison falls  *)
(* on equality (the specifications below run a few ticks of level 2).      *)
(***************************************************************************)
EXTENDS Integers, Sequences, FiniteSets, TLC

----------------------------------------------------------------------------
(* Game constants, game.ts lines 2-8 and 64.                               *)

CANVAS_WIDTH == 800

CANVAS_HEIGHT == 600

PLAYER_SPEED == 5

BULLET_SPEED == 7

BASE_ALIEN_SPEED == 1

BASE_HEAVY_ALIEN_SPEED == 2

ALIEN_DROP_DISTANCE == 20

MAX_NAME_LENGTH == 10

\* Sub-pixel units per pixel: the speed factor of line 116 moves in tenths.
SUBPIXELS == 10

\* n pixels in model units.
Px(n) == n * SUBPIXELS

\* The countdown of LEVEL_TRANSITION in milliseconds (line 218).
TRANSITION_MS == 3000

\* Points awarded per destroyed alien (lines 304 and 315).
NORMAL_SCORE == 10

HEAVY_SCORE == 50

\* saveScore keeps this many entries (line 347).
TOP_SCORES == 5

Min(a, b) == IF a < b THEN a ELSE b

----------------------------------------------------------------------------
(* Bounds of the model.                                                    *)

\* Simulated (PLAYING) ticks a behaviour may take after its initial state.
MaxTicks == 2

\* Characters that may be typed freely into the name, and the longest name
\* that is submitted with Enter; a name of "A"s alone may still be extended
\* by the key "a" up to MAX_NAME_LENGTH.
MaxTyped == 1

\* The highest level whose formation is regenerated by a level transition
\* is MaxLevel + 1: at level 7 every size has reached its cap.
MaxLevel == 7

----------------------------------------------------------------------------
(* enum GameState, lines 11-20.                                            *)

GameState ==
    {"MENU", "PLAYING", "SCOREBOARD", "CREDITS", "GAME_OVER",
     "LEVEL_TRANSITION", "PAUSED", "NAME_INPUT"}

----------------------------------------------------------------------------
(* localStorage and JSON (lines 343, 348, 352).  A stored string is a      *)
(* sequence of tokens; the item is NoItem when the key was never set.      *)
(* JSONstringify writes an array of {name, score} objects; JSONparse reads *)
(* the token sequence back and throws SyntaxError on anything that is not  *)
(* JSON.  Of the JSON values only arrays of score entries and null occur.  *)

NoItem == [set |-> FALSE, text |-> <<>>]

Item(text) == [set |-> TRUE, text |-> text]

\* Tokens: punctuation and literals, and the two members of a score entry.
P(s) == [key |-> "punct", str |-> s, num |-> 0]

NameTok(n) == [key |-> "name", str |-> n, num |-> 0]

ScoreTok(s) == [key |-> "score", str |-> "", num |-> s]

IsP(t, s) == t.key = "punct" /\ t.str = s

RECURSIVE StringifyEntries(_)
StringifyEntries(scores) ==
    IF scores = <<>> THEN <<>>
    ELSE <<P("{"), NameTok(Head(scores).name), P(","),
           ScoreTok(Head(scores).score), P("}")>>
         \o (IF Tail(scores) = <<>> THEN <<>> ELSE <<P(",")>>)
         \o StringifyEntries(Tail(scores))

JSONstringify(scores) == <<P("[")>> \o StringifyEntries(scores) \o <<P("]")>>

\* The result of JSON.parse: a value (an array of entries, or null), or a
\* thrown SyntaxError.
Parsed(v) == [threw |-> FALSE, error |-> "none", isArray |-> TRUE, value |-> v]

ParsedNull == [threw |-> FALSE, error |-> "none", isArray |-> FALSE, value |-> <<>>]

Threw(e) == [threw |-> TRUE, error |-> e, isArray |-> FALSE, value |-> <<>>]

\* Parses the objects of an array from position i on; acc holds the entries
\* read so far.
RECURSIVE ParseEntries(_, _, _)
ParseEntries(toks, i, acc) ==
    IF i + 5 > Len(toks) THEN Threw("SyntaxError")
    ELSE IF /\ IsP(toks[i], "{")
            /\ toks[i + 1].key = "name"
            /\ IsP(toks[i + 2], ",")
            /\ toks[i + 3].key = "score"
            /\ IsP(toks[i + 4], "}")
         THEN LET e == [name |-> toks[i + 1].str, score |-> toks[i + 3].num]
              IN  IF IsP(toks[i + 5], "]")
                  THEN IF i + 5 = Len(toks) THEN Parsed(Append(acc, e))
                       ELSE Threw("SyntaxError")
                  ELSE IF IsP(toks[i + 5], ",")
                       THEN ParseEntries(toks, i + 6, Append(acc, e))
                       ELSE Threw("SyntaxError")
         ELSE Threw("SyntaxError")

\* JSON.parse of a stored text.
JSONparse(toks) ==
    IF Len(toks) = 1 /\ IsP(toks[1], "null") THEN ParsedNull
    ELSE IF Len(toks) = 2 /\ IsP(toks[1], "[") /\ IsP(toks[2], "]")
         THEN Parsed(<<>>)
    ELSE IF Len(toks) >= 1 /\ IsP(toks[1], "[")
         THEN ParseEntries(toks, 2, <<>>)
    ELSE Threw("SyntaxError")

\* localStorage.getItem(key) || '[]': a missing item and the empty string
\* both read as the text of the empty array.
ItemOrEmpty(item) ==
    IF ~item.set \/ item.text = <<>> THEN <<P("["), P("]")>> ELSE item.text

\* function saveScore, lines 342-349.  The result is the outcome of the call
\* and the item it leaves in localStorage.  JSON.parse throws on a text that
\* is not JSON; push throws TypeError on a value that is no array (null).
RECURSIVE InsertByScore(_, _)
InsertByScore(sorted, e) ==
    IF sorted = <<>> THEN <<e>>
    ELSE IF Head(sorted).score >= e.score
         THEN <<Head(sorted)>> \o InsertByScore(Tail(sorted), e)
         ELSE <<e>> \o sorted

\* scores.sort((a, b) => b.score - a.score): descending, and stable, so an
\* entry stays behind the earlier entries of the same score.
RECURSIVE SortDescending(_)
SortDescending(scores) ==
    IF scores = <<>> THEN <<>>
    ELSE InsertByScore(SortDescending(SubSeq(scores, 1, Len(scores) - 1)),
                       scores[Len(scores)])

\* A truncation that keeps one entry too many.
TruncateKeepsSix(scores) ==
    IF Len(scores) > TOP_SCORES + 1 THEN SubSeq(scores, 1, TOP_SCORES + 1)
    ELSE scores

\* Line 347: scores.length = 5 when there are more than 5.
Truncate(scores) ==
    IF Len(scores) > TOP_SCORES THEN SubSeq(scores, 1, TOP_SCORES) ELSE scores

saveScore(item, name, points) ==
    LET r == JSONparse(ItemOrEmpty(item))
    IN  IF r.threw THEN [threw |-> TRUE, error |-> r.error, item |-> item]
        ELSE IF ~r.isArray
             THEN [threw |-> TRUE, error |-> "TypeError", item |-> item]
        ELSE LET pushed == Append(r.value, [name |-> name, score |-> points])
                 kept   == Truncate(SortDescending(pushed))
             IN  [threw |-> FALSE, error |-> "none",
                  item |-> Item(JSONstringify(kept))]

\* function getHighScores, lines 351-353.
getHighScores(item) == JSONparse(ItemOrEmpty(item))

----------------------------------------------------------------------------
(* The session reset, function resetGame, lines 109-169.  The world g is   *)
(* the record of the module-level variables of game.ts (lines 46-63).      *)

\* A row count that keeps growing with the level.
NormalRowsUncapped(level) == 4 + (level - 1) \div 2

\* Lines 135-137 and 166: the size of the formations and the heavy hp.
NormalRows(level) == Min(4 + (level - 1) \div 2, 6)

NormalCols(level) == Min(8 + (level - 1) \div 3, 10)

HeavyCount(level) == Min(3 + (level - 1) \div 2, 6)

HeavyHp(level) == 4 + (level - 1) \div 3

\* Lines 116-117: base * (1 + (level-1) * 0.3) pixels per tick, in sub-pixels.
LevelSpeed(base, level) == base * (Px(1) + (level - 1) * 3)

\* Lines 119-125.
NewPlayer ==
    [x |-> Px(CANVAS_WIDTH) \div 2 - Px(20), y |-> Px(CANVAS_HEIGHT) - Px(60),
     width |-> Px(40), height |-> Px(40)]

\* Lines 140-153: row by row, left to right.
NewAliens(level) ==
    LET cols == NormalCols(level)
    IN  [k \in 1..(NormalRows(level) * cols) |->
            [x |-> Px(80) + ((k - 1) % cols) * Px(60),
             y |-> Px(80) + ((k - 1) \div cols) * Px(50),
             width |-> Px(40), height |-> Px(40),
             active |-> TRUE, type |-> "normal", hp |-> 1]]

\* Lines 156-168: evenly spaced across the canvas.
NewHeavyAliens(level) ==
    LET heavySpacing == Px(CANVAS_WIDTH) \div (HeavyCount(level) + 1)
    IN  [k \in 1..HeavyCount(level) |->
            [x |-> heavySpacing * k - Px(30), y |-> Px(20),
             width |-> Px(60), height |-> Px(60),
             active |-> TRUE, type |-> "heavy", hp |-> HeavyHp(level)]]

resetGame(g, startNewGame) ==
    LET level == IF startNewGame THEN 1 ELSE g.currentLevel
    IN  [g EXCEPT !.currentLevel = level,
                  !.score = IF startNewGame THEN 0 ELSE @,
                  !.alienSpeed = LevelSpeed(BASE_ALIEN_SPEED, level),
                  !.heavyAlienSpeed = LevelSpeed(BASE_HEAVY_ALIEN_SPEED, level),
                  !.player = NewPlayer,
                  !.bullets = <<>>,
                  !.aliens = NewAliens(level),
                  !.heavyAliens = NewHeavyAliens(level),
                  !.gameOver = FALSE,
                  !.alienDirection = 1,
                  !.heavyAlienDirection = 1]

----------------------------------------------------------------------------
(* Keyboard, lines 80-101.  Of the map keys only the entries that update   *)
(* reads are kept: ArrowLeft, ArrowRight, Space and the synthetic          *)
(* SpaceLocked; an entry never written is undefined, which reads as false. *)

TrackedCodes == {"ArrowLeft", "ArrowRight", "Space"}

\* e.key values of length 1, and those among them that /[a-zA-Z0-9]/ matches.
SingleChars == {"a", "A", "1", "#"}

AlphaNumeric == {"a", "A", "1"}

\* A character appended as typed.
KeepCase(c) == c

\* String.prototype.toUpperCase on the characters above.
toUpperCase(c) == IF c = "a" THEN "A" ELSE c

\* playerName.slice(0, -1)
DropLast(name) ==
    IF name = <<>> THEN <<>> ELSE SubSeq(name, 1, Len(name) - 1)

\* An Escape key that pauses whatever screen is shown.
EscapeToggleAnywhere(g, e) ==
    IF e.code = "Escape"
    THEN IF g.currentState = "PAUSED" THEN [g EXCEPT !.currentState = "PLAYING"]
         ELSE [g EXCEPT !.currentState = "PAUSED"]
    ELSE g

\* Lines 82-88.
EscapeToggle(g, e) ==
    IF e.code = "Escape"
    THEN IF g.currentState = "PLAYING" THEN [g EXCEPT !.currentState = "PAUSED"]
         ELSE IF g.currentState = "PAUSED" THEN [g EXCEPT !.currentState = "PLAYING"]
         ELSE g
    ELSE g

\* A name screen whose Enter key starts the session whatever the name.
NameInputAcceptsEmpty(g, e) ==
    IF g.currentState # "NAME_INPUT" THEN g
    ELSE IF /\ e.key \in SingleChars
            /\ Len(g.playerName) < MAX_NAME_LENGTH
            /\ e.key \in AlphaNumeric
         THEN [g EXCEPT !.playerName = Append(@, toUpperCase(e.key))]
    ELSE IF e.key = "Backspace"
         THEN [g EXCEPT !.playerName = DropLast(@)]
    ELSE IF e.key = "Enter"
         THEN resetGame([g EXCEPT !.currentState = "PLAYING"], TRUE)
    ELSE g

\* Lines 90-99.
NameInput(g, e) ==
    IF g.currentState # "NAME_INPUT" THEN g
    ELSE IF /\ e.key \in SingleChars
            /\ Len(g.playerName) < MAX_NAME_LENGTH
            /\ e.key \in AlphaNumeric
         THEN [g EXCEPT !.playerName = Append(@, toUpperCase(e.key))]
    ELSE IF e.key = "Backspace"
         THEN [g EXCEPT !.playerName = DropLast(@)]
    ELSE IF e.key = "Enter" /\ Len(g.playerName) > 0
         THEN resetGame([g EXCEPT !.currentState = "PLAYING"], TRUE)
    ELSE g

\* The keydown listener, lines 80-100.
onKeyDown(g, e) ==
    LET g1 == IF e.code \in TrackedCodes
              THEN [g EXCEPT !.keys[e.code] = TRUE] ELSE g
    IN  NameInput(EscapeToggle(g1, e), e)

\* The keyup listener, line 101.
onKeyUp(g, e) ==
    IF e.code \in TrackedCodes THEN [g EXCEPT !.keys[e.code] = FALSE] ELSE g

----------------------------------------------------------------------------
(* Mouse, lines 171-213.  Click coordinates are canvas pixels.             *)

isInside(x, y, rx, ry, rw, rh) ==
    x >= rx /\ x <= rx + rw /\ y >= ry /\ y <= ry + rh

handleMouseClick(g, mouseX, mouseY) ==
    IF g.currentState = "MENU"
    THEN IF isInside(mouseX, mouseY, CANVAS_WIDTH \div 2 - 120, 250, 240, 60)
         THEN [g EXCEPT !.currentState = "NAME_INPUT", !.playerName = <<>>]
         ELSE IF isInside(mouseX, mouseY, CANVAS_WIDTH \div 2 - 120, 330, 240, 60)
         THEN [g EXCEPT !.currentState = "SCOREBOARD"]
         ELSE IF isInside(mouseX, mouseY, CANVAS_WIDTH \div 2 - 120, 410, 240, 60)
         THEN [g EXCEPT !.currentState = "CREDITS"]
         ELSE g
    ELSE IF g.currentState = "PLAYING"
    THEN IF isInside(mouseX, mouseY, CANVAS_WIDTH - 40, 10, 30, 30)
         THEN [g EXCEPT !.currentState = "PAUSED"]
         ELSE g
    ELSE IF g.currentState = "PAUSED"
    THEN IF isInside(mouseX, mouseY, CANVAS_WIDTH \div 2 - 100, 250, 200, 50)
         THEN [g EXCEPT !.currentState = "PLAYING"]
         ELSE IF isInside(mouseX, mouseY, CANVAS_WIDTH \div 2 - 100, 320, 200, 50)
         THEN resetGame([g EXCEPT !.currentState = "MENU"], TRUE)
         ELSE g
    ELSE IF g.currentState \in {"SCOREBOARD", "CREDITS", "GAME_OVER"}
    THEN [g EXCEPT !.currentState = "MENU"]
    ELSE g

----------------------------------------------------------------------------
(* The simulation, function update, lines 215-333.                         *)

NoError == [fn |-> "none", error |-> "none"]

\* A movement without the edge guards of lines 234 and 237.
PlayerMovementUnclamped(g) ==
    LET x1 == IF g.keys.ArrowLeft
              THEN g.player.x - Px(PLAYER_SPEED) ELSE g.player.x
        x2 == IF g.keys.ArrowRight
              THEN x1 + Px(PLAYER_SPEED) ELSE x1
    IN  [g EXCEPT !.player.x = x2]

\* Lines 233-239.
PlayerMovement(g) ==
    LET x1 == IF g.keys.ArrowLeft /\ g.player.x > 0
              THEN g.player.x - Px(PLAYER_SPEED) ELSE g.player.x
        x2 == IF g.keys.ArrowRight /\ x1 < Px(CANVAS_WIDTH) - g.player.width
              THEN x1 + Px(PLAYER_SPEED) ELSE x1
    IN  [g EXCEPT !.player.x = x2]

\* Lines 243-249.
NewBullet(player) ==
    [x |-> player.x + player.width \div 2 - Px(2), y |-> player.y,
     width |-> Px(4), height |-> Px(10), active |-> TRUE]

\* Line 242: the fire key is down and the debounce flag is clear.
FireCondition(keys) == keys.Space /\ ~keys.SpaceLocked

\* Lines 241-254.
Shooting(g) ==
    LET g1 == IF FireCondition(g.keys)
              THEN [g EXCEPT !.bullets = Append(@, NewBullet(g.player)),
                             !.keys.SpaceLocked = TRUE]
              ELSE g
    IN  IF ~g1.keys.Space THEN [g1 EXCEPT !.keys.SpaceLocked = FALSE] ELSE g1

\* Lines 257-260.
MoveBullet(b) ==
    LET y == b.y - Px(BULLET_SPEED)
    IN  [b EXCEPT !.y = y, !.active = IF y < 0 THEN FALSE ELSE @]

\* A bullet advance that never compacts the collection.
UpdateBulletsKeepsAll(g) ==
    [g EXCEPT !.bullets = [k \in 1..Len(g.bullets) |-> MoveBullet(g.bullets[k])]]

\* Lines 256-261.
UpdateBullets(g) ==
    LET moved == [k \in 1..Len(g.bullets) |-> MoveBullet(g.bullets[k])]
    IN  [g EXCEPT !.bullets = SelectSeq(moved, LAMBDA b: b.active)]

\* Lines 268 and 285.
AtWall(alien) == alien.x <= 0 \/ alien.x >= Px(CANVAS_WIDTH) - alien.width

\* Lines 265-271 and 282-288: the active members move, the others stay.
ShiftFormation(formation, speed, direction) ==
    [k \in 1..Len(formation) |->
        IF formation[k].active
        THEN [formation[k] EXCEPT !.x = @ + speed * direction]
        ELSE formation[k]]

HitWall(formation) ==
    \E k \in 1..Len(formation) : formation[k].active /\ AtWall(formation[k])

\* A drop that leaves the inactive members where they are.
DropActiveOnly(formation) ==
    [k \in 1..Len(formation) |->
        IF formation[k].active
        THEN [formation[k] EXCEPT !.y = @ + Px(ALIEN_DROP_DISTANCE)]
        ELSE formation[k]]

\* Lines 275-277 and 292-294: every member drops, active or not.
DropFormation(formation) ==
    [k \in 1..Len(formation) |->
        [formation[k] EXCEPT !.y = @ + Px(ALIEN_DROP_DISTANCE)]]

\* Lines 263-278.
UpdateNormalAliens(g) ==
    LET moved == ShiftFormation(g.aliens, g.alienSpeed, g.alienDirection)
    IN  IF HitWall(moved)
        THEN [g EXCEPT !.aliens = DropFormation(moved),
                       !.alienDirection = -1 * @]
        ELSE [g EXCEPT !.aliens = moved]

\* Lines 280-295.
UpdateHeavyAliens(g) ==
    LET moved == ShiftFormation(g.heavyAliens, g.heavyAlienSpeed,
                                g.heavyAlienDirection)
    IN  IF HitWall(moved)
        THEN [g EXCEPT !.heavyAliens = DropFormation(moved),
                       !.heavyAlienDirection = -1 * @]
        ELSE [g EXCEPT !.heavyAliens = moved]

\* function rectIntersect, lines 335-340.
rectIntersect(r1, r2) ==
    ~(\/ r2.x > r1.x + r1.width
      \/ r2.x + r2.width < r1.x
      \/ r2.y > r1.y + r1.height
      \/ r2.y + r2.height < r1.y)

\* A hit test that forgets the bullet's active flag.
HitConditionAnyBullet(alien, bullet) ==
    alien.active /\ rectIntersect(bullet, alien)

\* The condition of lines 301 and 310.
HitCondition(alien, bullet) ==
    alien.active /\ bullet.active /\ rectIntersect(bullet, alien)

\* A hit that takes the bullet and the points but leaves the alien active.
HitNormalSpared(g, b, k) ==
    [g EXCEPT !.bullets[b].active = FALSE,
              !.score = @ + NORMAL_SCORE]

\* Lines 302-304.
HitNormal(g, b, k) ==
    [g EXCEPT !.aliens[k].active = FALSE,
              !.bullets[b].active = FALSE,
              !.score = @ + NORMAL_SCORE]

\* A hit that fells the heavy alien one hit point early.
HitHeavyEarly(g, b, k) ==
    LET hp == g.heavyAliens[k].hp - 1
    IN  [g EXCEPT !.heavyAliens[k].hp = hp,
                  !.bullets[b].active = FALSE,
                  !.heavyAliens[k].active = IF hp <= 1 THEN FALSE ELSE @,
                  !.score = IF hp <= 1 THEN @ + HEAVY_SCORE ELSE @]

\* A hit that pays the 50 points on every hit of a heavy alien.
HitHeavyPaysPerHit(g, b, k) ==
    LET hp == g.heavyAliens[k].hp - 1
    IN  [g EXCEPT !.heavyAliens[k].hp = hp,
                  !.bullets[b].active = FALSE,
                  !.heavyAliens[k].active = IF hp <= 0 THEN FALSE ELSE @,
                  !.score = @ + HEAVY_SCORE]

\* A hit that counts the hp of a heavy alien up instead of down.
HitHeavyHeals(g, b, k) ==
    LET hp == g.heavyAliens[k].hp + 1
    IN  [g EXCEPT !.heavyAliens[k].hp = hp,
                  !.bullets[b].active = FALSE,
                  !.heavyAliens[k].active = IF hp <= 0 THEN FALSE ELSE @,
                  !.score = IF hp <= 0 THEN @ + HEAVY_SCORE ELSE @]

\* Lines 311-316.
HitHeavy(g, b, k) ==
    LET hp == g.heavyAliens[k].hp - 1
    IN  [g EXCEPT !.heavyAliens[k].hp = hp,
                  !.bullets[b].active = FALSE,
                  !.heavyAliens[k].active = IF hp <= 0 THEN FALSE ELSE @,
                  !.score = IF hp <= 0 THEN @ + HEAVY_SCORE ELSE @]

\* Lines 300-306: bullet b against the normal aliens k, k+1, ...
RECURSIVE CheckNormalAliens(_, _, _)
CheckNormalAliens(g, b, k) ==
    IF k > Len(g.aliens) THEN g
    ELSE CheckNormalAliens(
             IF HitCondition(g.aliens[k], g.bullets[b])
             THEN HitNormal(g, b, k) ELSE g,
             b, k + 1)

\* Lines 309-318: bullet b against the heavy aliens k, k+1, ...
RECURSIVE CheckHeavyAliens(_, _, _)
CheckHeavyAliens(g, b, k) ==
    IF k > Len(g.heavyAliens) THEN g
    ELSE CheckHeavyAliens(
             IF HitCondition(g.heavyAliens[k], g.bullets[b])
             THEN HitHeavy(g, b, k) ELSE g,
             b, k + 1)

\* Lines 297-319: the bullets b, b+1, ... in order.
RECURSIVE CollisionDetection(_, _)
CollisionDetection(g, b) ==
    IF b > Len(g.bullets) THEN g
    ELSE CollisionDetection(
             CheckHeavyAliens(CheckNormalAliens(g, b, 1), b, 1), b + 1)

\* Lines 322-323.
Reached(formation, player) ==
    \E k \in 1..Len(formation) :
        formation[k].active /\ formation[k].y + formation[k].height >= player.y

\* A formation that counts as cleared with its first loss.
AnyInactive(formation) ==
    \E k \in 1..Len(formation) : ~formation[k].active

\* Lines 328-329: every(a => !a.active).
AllInactive(formation) ==
    \A k \in 1..Len(formation) : ~formation[k].active

\* Lines 321-326.  An exception thrown by saveScore leaves update (and the
\* frame callback) at line 325, after gameOver was set.
GameOverCheck(g) ==
    IF Reached(g.aliens, g.player) \/ Reached(g.heavyAliens, g.player)
    THEN LET r == saveScore(g.storage, g.playerName, g.score)
         IN  [g EXCEPT !.gameOver = TRUE,
                       !.storage = r.item,
                       !.uncaught = IF r.threw
                                    THEN [fn |-> "saveScore", error |-> r.error]
                                    ELSE @]
    ELSE g

\* A level that counts as cleared once the normal aliens are gone.
LevelCompleteNormalsOnly(g) ==
    IF AllInactive(g.aliens)
    THEN [g EXCEPT !.currentState = "LEVEL_TRANSITION", !.transitionTimer = 0]
    ELSE g

\* Lines 328-332.
LevelCompleteCheck(g) ==
    IF AllInactive(g.aliens) /\ AllInactive(g.heavyAliens)
    THEN [g EXCEPT !.currentState = "LEVEL_TRANSITION", !.transitionTimer = 0]
    ELSE g

\* A countdown that is over at 3000 ms already.
CountdownOverAtLimit(timer) == timer >= TRANSITION_MS

\* Line 218.
CountdownOver(timer) == timer > TRANSITION_MS

\* A countdown that ends in a new session instead of the next level.
LevelTransitionRestarts(g, deltaTime) ==
    LET timer == g.transitionTimer + deltaTime
    IN  IF CountdownOver(timer)
        THEN [resetGame([g EXCEPT !.transitionTimer = 0,
                                  !.currentLevel = @ + 1], TRUE)
                EXCEPT !.currentState = "PLAYING"]
        ELSE [g EXCEPT !.transitionTimer = timer]

\* A countdown that forgets the time that has passed.
LevelTransitionStalls(g, deltaTime) ==
    LET timer == g.transitionTimer + deltaTime
    IN  IF CountdownOver(timer)
        THEN [resetGame([g EXCEPT !.transitionTimer = 0,
                                  !.currentLevel = @ + 1], FALSE)
                EXCEPT !.currentState = "PLAYING"]
        ELSE g

\* Lines 216-225.
LevelTransition(g, deltaTime) ==
    LET timer == g.transitionTimer + deltaTime
    IN  IF CountdownOver(timer)
        THEN [resetGame([g EXCEPT !.transitionTimer = 0,
                                  !.currentLevel = @ + 1], FALSE)
                EXCEPT !.currentState = "PLAYING"]
        ELSE [g EXCEPT !.transitionTimer = timer]

\* Lines 233-332: one simulated tick.
Simulate(g) ==
    LET moved == UpdateHeavyAliens(UpdateNormalAliens(
                     UpdateBullets(Shooting(PlayerMovement(g)))))
        over  == GameOverCheck(CollisionDetection(moved, 1))
    IN  IF over.uncaught # NoError THEN over ELSE LevelCompleteCheck(over)

\* Whether update runs the simulation (lines 216, 227, 228).
Simulating(g) == g.currentState = "PLAYING" /\ ~g.gameOver

\* An update that keeps simulating behind the pause screen.
updateWhilePaused(g, deltaTime) ==
    IF g.currentState = "LEVEL_TRANSITION" THEN LevelTransition(g, deltaTime)
    ELSE IF g.currentState \notin {"PLAYING", "PAUSED"} THEN g
    ELSE IF g.gameOver THEN [g EXCEPT !.currentState = "GAME_OVER"]
    ELSE Simulate(g)

update(g, deltaTime) ==
    IF g.currentState = "LEVEL_TRANSITION" THEN LevelTransition(g, deltaTime)
    ELSE IF g.currentState # "PLAYING" THEN g
    ELSE IF g.gameOver THEN [g EXCEPT !.currentState = "GAME_OVER"]
    ELSE Simulate(g)

\* function draw, lines 652-855, for what it does besides painting: the
\* scoreboard screen reads the leaderboard (drawScoreboard, lines 486-490),
\* where JSON.parse may throw and scores.length throws on null.
draw(g) ==
    IF g.currentState = "SCOREBOARD"
    THEN LET r == getHighScores(g.storage)
         IN  IF r.threw
             THEN [g EXCEPT !.uncaught = [fn |-> "getHighScores", error |-> r.error]]
             ELSE IF ~r.isArray
             THEN [g EXCEPT !.uncaught = [fn |-> "drawScoreboard", error |-> "TypeError"]]
             ELSE g
    ELSE g

\* The bullets that draw paints (lines 663 and 754-773): on the playing and
\* pause screens, every element of bullets, whatever its active flag.
DrawnBullets(g) ==
    IF g.currentState \in {"PLAYING", "PAUSED"}
    THEN {g.bullets[k] : k \in DOMAIN g.bullets}
    ELSE {}

\* function gameLoop, lines 857-865: requestAnimationFrame(gameLoop) is
\* reached only when update and draw return.
gameLoop(g, deltaTime) ==
    LET u == update(g, deltaTime)
        d == IF u.uncaught # NoError THEN u ELSE draw(u)
    IN  [d EXCEPT !.raf = (d.uncaught = NoError)]

----------------------------------------------------------------------------
(* The state: the module-level variables of game.ts (lines 46-63), the     *)
(* leaderboard item of localStorage, whether the frame callback is         *)
(* scheduled (raf), and the exception that escaped a frame, if any.        *)
(* ticks and hold observe the run: the simulated ticks taken so far, and   *)
(* the simulated ticks and the bullets spawned since the fire key went     *)
(* down.                                                                   *)

VARIABLES currentState, player, bullets, aliens, heavyAliens, keys,
          alienDirection, heavyAlienDirection, score, gameOver, currentLevel,
          alienSpeed, heavyAlienSpeed, transitionTimer, playerName,
          storage, raf, uncaught, ticks, hold

world == <<currentState, player, bullets, aliens, heavyAliens, keys,
           alienDirection, heavyAlienDirection, score, gameOver, currentLevel,
           alienSpeed, heavyAlienSpeed, transitionTimer, playerName,
           storage, raf, uncaught>>

vars == <<world, ticks, hold>>

\* The world as one record, for the handlers above.
World ==
    [currentState |-> currentState, player |-> player, bullets |-> bullets,
     aliens |-> aliens, heavyAliens |-> heavyAliens, keys |-> keys,
     alienDirection |-> alienDirection,
     heavyAlienDirection |-> heavyAlienDirection, score |-> score,
     gameOver |-> gameOver, currentLevel |-> currentLevel,
     alienSpeed |-> alienSpeed, heavyAlienSpeed |-> heavyAlienSpeed,
     transitionTimer |-> transitionTimer, playerName |-> playerName,
     storage |-> storage, raf |-> raf, uncaught |-> uncaught]

\* The state is the world g.
Is(g) ==
    /\ currentState = g.currentState
    /\ player = g.player
    /\ bullets = g.bullets
    /\ aliens = g.aliens
    /\ heavyAliens = g.heavyAliens
    /\ keys = g.keys
    /\ alienDirection = g.alienDirection
    /\ heavyAlienDirection = g.heavyAlienDirection
    /\ score = g.score
    /\ gameOver = g.gameOver
    /\ currentLevel = g.currentLevel
    /\ alienSpeed = g.alienSpeed
    /\ heavyAlienSpeed = g.heavyAlienSpeed
    /\ transitionTimer = g.transitionTimer
    /\ playerName = g.playerName
    /\ storage = g.storage
    /\ raf = g.raf
    /\ uncaught = g.uncaught

\* The next state is the world g.
Becomes(g) ==
    /\ currentState' = g.currentState
    /\ player' = g.player
    /\ bullets' = g.bullets
    /\ aliens' = g.aliens
    /\ heavyAliens' = g.heavyAliens
    /\ keys' = g.keys
    /\ alienDirection' = g.alienDirection
    /\ heavyAlienDirection' = g.heavyAlienDirection
    /\ score' = g.score
    /\ gameOver' = g.gameOver
    /\ currentLevel' = g.currentLevel
    /\ alienSpeed' = g.alienSpeed
    /\ heavyAlienSpeed' = g.heavyAlienSpeed
    /\ transitionTimer' = g.transitionTimer
    /\ playerName' = g.playerName
    /\ storage' = g.storage
    /\ raf' = g.raf
    /\ uncaught' = g.uncaught

\* Lines 48-63 and function init, lines 74-107: the initial values of the
\* variables, resetGame(), and the first requestAnimationFrame.
Constructed(item) ==
    resetGame(
        [currentState |-> "MENU", player |-> NewPlayer, bullets |-> <<>>,
         aliens |-> <<>>, heavyAliens |-> <<>>,
         keys |-> [ArrowLeft |-> FALSE, ArrowRight |-> FALSE,
                   Space |-> FALSE, SpaceLocked |-> FALSE],
         alienDirection |-> 1, heavyAlienDirection |-> 1, score |-> 0,
         gameOver |-> FALSE, currentLevel |-> 1,
         alienSpeed |-> Px(BASE_ALIEN_SPEED),
         heavyAlienSpeed |-> Px(BASE_HEAVY_ALIEN_SPEED),
         transitionTimer |-> 0, playerName |-> <<>>,
         storage |-> item, raf |-> TRUE, uncaught |-> NoError],
        TRUE)

----------------------------------------------------------------------------
(* The environment: what the page finds in localStorage, the key and mouse *)
(* events, and the time between two frames.                                *)

AnEntry == [name |-> <<"A">>, score |-> 20]

\* The leaderboard item found at start: never written, a one-entry
\* leaderboard, a truncated text (invalid JSON), and the text null.
StoredItems ==
    {NoItem, Item(JSONstringify(<<AnEntry>>)),
     Item(<<P("["), P("{")>>), Item(<<P("null")>>)}

KeyEvents ==
    {[code |-> "ArrowLeft", key |-> "ArrowLeft"],
     [code |-> "ArrowRight", key |-> "ArrowRight"],
     [code |-> "Space", key |-> " "],
     [code |-> "Escape", key |-> "Escape"],
     [code |-> "Enter", key |-> "Enter"],
     [code |-> "Backspace", key |-> "Backspace"],
     [code |-> "KeyA", key |-> "a"],
     [code |-> "Digit1", key |-> "1"],
     [code |-> "Digit3", key |-> "#"]}

\* Start / Resume, Scoreboard / Menu, Credits, the pause button, no button.
ClickPoints ==
    {<<400, 280>>, <<400, 345>>, <<400, 440>>, <<775, 25>>, <<10, 590>>}

\* timestamp - lastTime of two frames (line 858), in milliseconds.
DeltaTimes == {1000, 1500}

NoHold == [ticks |-> 0, shots |-> 0]

\* The bullets of a tick's result that the tick spawned: they stand one
\* step above the player (lines 245 and 258), older ones are higher up.
Spawned(bs, p) == {k \in 1..Len(bs) : bs[k].y = p.y - Px(BULLET_SPEED)}

\* The typing bound: any character while the name is shorter than MaxTyped,
\* and the key "a" after a name of "A"s.
TypingAllowed(e) ==
    e.key \in SingleChars =>
        \/ currentState # "NAME_INPUT"
        \/ Len(playerName) < MaxTyped
        \/ e.key = "a" /\ \A k \in 1..Len(playerName) : playerName[k] = "A"

\* The submit bound: Enter is pressed on names of at most MaxTyped characters.
SubmitAllowed(e) ==
    e.key = "Enter" /\ currentState = "NAME_INPUT" => Len(playerName) <= MaxTyped

KeyDown(e) ==
    /\ TypingAllowed(e)
    /\ SubmitAllowed(e)
    /\ Becomes(onKeyDown(World, e))
    /\ hold' = IF e.code = "Space" /\ ~keys.Space THEN NoHold ELSE hold
    /\ UNCHANGED ticks

\* The release of a key that update does not read changes nothing that is
\* kept of the map keys: the releases are those of the tracked codes.
KeyUp(code) ==
    /\ Becomes(onKeyUp(World, [code |-> code]))
    /\ hold' = IF code = "Space" THEN NoHold ELSE hold
    /\ UNCHANGED ticks

MouseDown(p) ==
    /\ Becomes(handleMouseClick(World, p[1], p[2]))
    /\ UNCHANGED <<ticks, hold>>

\* One animation frame: gameLoop runs when the callback is scheduled.
Frame(deltaTime) ==
    /\ raf
    /\ Simulating(World) => ticks < MaxTicks
    /\ Becomes(gameLoop(World, deltaTime))
    /\ ticks' = IF Simulating(World) THEN ticks + 1 ELSE ticks
    /\ hold' = IF Simulating(World) /\ keys.Space
               THEN [ticks |-> hold.ticks + 1,
                     shots |-> hold.shots + Cardinality(Spawned(bullets', player'))]
               ELSE hold

Next ==
    \/ \E e \in KeyEvents : KeyDown(e)
    \/ \E code \in TrackedCodes : KeyUp(code)
    \/ \E p \in ClickPoints : MouseDown(p)
    \/ \E deltaTime \in DeltaTimes : Frame(deltaTime)

Init ==
    /\ \E item \in StoredItems : Is(Constructed(item))
    /\ ticks = 0
    /\ hold = NoHold

Spec == Init /\ [][Next]_vars

----------------------------------------------------------------------------
(* Mid-session states.  A level lasts hundreds of ticks, so the second     *)
(* specification starts from states that the handlers above reach from     *)
(* the constructed state under a scripted player: the session is started   *)
(* (click Start, type "a", Enter), one arrow key is held for the first     *)
(* script.hold ticks, and the fire key is down on every tick t with        *)
(* t % script.period = 1 and up on the others.  From such a state the      *)
(* events and frames are free again, as in Spec.                           *)

StartSession(g) ==
    onKeyDown(
        onKeyDown(handleMouseClick(g, 400, 280), [code |-> "KeyA", key |-> "a"]),
        [code |-> "Enter", key |-> "Enter"])

\* The key event that brings the key to the wanted position, if it is not there.
Hold(g, code, down) ==
    IF g.keys[code] = down THEN g
    ELSE IF down THEN onKeyDown(g, [code |-> code, key |-> code])
    ELSE onKeyUp(g, [code |-> code])

\* The events before tick t of the script, and the frame.
ScriptStep(g, script, t) ==
    gameLoop(Hold(Hold(g, script.key, t <= script.hold),
                  "Space", t % script.period = 1),
             16)

\* The ticks from..to of the script, first half first; the run ends when
\* the frame callback is no longer scheduled.
RECURSIVE Replay(_, _, _, _)
Replay(g, script, from, to) ==
    IF from > to \/ ~g.raf THEN g
    ELSE IF from = to THEN ScriptStep(g, script, from)
    ELSE LET mid  == (from + to) \div 2
             half == Replay(g, script, from, mid)
         IN  IF half.raf THEN Replay(half, script, mid + 1, to) ELSE half

\* Moves right for 44 ticks and fires every 5th tick: the first normal alien
\* falls at tick 43, a bullet leaves the top of the canvas while another
\* hits at tick 138, the first heavy alien falls at tick 158, a bullet overlaps two
\* aliens at tick 445, and the level is cleared at tick 540.
Sweep == [key |-> "ArrowRight", hold |-> 44, period |-> 5]

\* Holds an arrow key until the player stands at the edge of the canvas.
ToRightEdge == [key |-> "ArrowRight", hold |-> 80, period |-> 5]

ToLeftEdge == [key |-> "ArrowLeft", hold |-> 80, period |-> 5]

\* Fires once at the start and then leaves the keys alone: the heavy
\* formation meets the right wall at tick 85 and the left wall at tick 255,
\* the normal formation meets the right wall at tick 260, and a heavy alien
\* reaches the player's row at tick 3825.
Drift == [key |-> "ArrowRight", hold |-> 0, period |-> 10000]

\* The scripted runs and their lengths in ticks; each ends on a tick on
\* which the fire key is up.
Snapshots ==
    {[script |-> Sweep, ticks |-> 42], [script |-> Sweep, ticks |-> 137],
     [script |-> Sweep, ticks |-> 157],
     [script |-> Sweep, ticks |-> 444], [script |-> Sweep, ticks |-> 539],
     [script |-> ToRightEdge, ticks |-> 75], [script |-> ToLeftEdge, ticks |-> 75],
     [script |-> Drift, ticks |-> 84], [script |-> Drift, ticks |-> 254],
     [script |-> Drift, ticks |-> 259], [script |-> Drift, ticks |-> 3824]}

\* The leaderboard items of the mid-session states.
ReplayItems == {NoItem, Item(<<P("["), P("{")>>)}

InitReplay ==
    /\ \E sn \in Snapshots, item \in ReplayItems :
          Is(Replay(StartSession(Constructed(item)), sn.script, 1, sn.ticks))
    /\ ticks = 0
    /\ hold = NoHold

SpecReplay == InitReplay /\ [][Next]_vars

----------------------------------------------------------------------------
(* The score store on its own: saveScore and getHighScores applied to the  *)
(* leaderboard item, with the name and the score that update passes at     *)
(* line 325 drawn from small sets.  The rest of the world stays as         *)
(* constructed.                                                            *)

SavedNames == {<<"A">>, <<"A", "1">>}

SavedScores == {0, 10, 60}

\* What a page may find: the items of StoredItems, the empty string, an empty
\* leaderboard, a full one, and one that another script left longer and
\* unsorted.
ScoreItems ==
    StoredItems \cup
    {Item(<<>>), Item(JSONstringify(<<>>)),
     Item(JSONstringify([k \in 1..TOP_SCORES |->
                            [name |-> <<"A">>, score |-> 10 * (TOP_SCORES - k)]])),
     Item(JSONstringify([k \in 1..(TOP_SCORES + 1) |->
                            [name |-> <<"A">>, score |-> 10 * ((2 * k) % 7)]]))}

\* saveScore(name, points), lines 342-349.
RecordScore(name, points) ==
    LET r == saveScore(storage, name, points)
    IN  /\ storage' = r.item
        /\ uncaught' = IF r.threw THEN [fn |-> "saveScore", error |-> r.error]
                       ELSE NoError
        /\ UNCHANGED <<currentState, player, bullets, aliens, heavyAliens, keys,
                       alienDirection, heavyAlienDirection, score, gameOver,
                       currentLevel, alienSpeed, heavyAlienSpeed,
                       transitionTimer, playerName, raf, ticks, hold>>

\* getHighScores(), lines 351-353.
LoadScores ==
    LET r == getHighScores(storage)
    IN  /\ uncaught' = IF r.threw THEN [fn |-> "getHighScores", error |-> r.error]
                       ELSE NoError
        /\ UNCHANGED <<currentState, player, bullets, aliens, heavyAliens, keys,
                       alienDirection, heavyAlienDirection, score, gameOver,
                       currentLevel, alienSpeed, heavyAlienSpeed,
                       transitionTimer, playerName, storage, raf, ticks, hold>>

NextScores ==
    \/ \E name \in SavedNames, points \in SavedScores : RecordScore(name, points)
    \/ LoadScores

InitScores ==
    /\ \E item \in ScoreItems : Is(Constructed(item))
    /\ ticks = 0
    /\ hold = NoHold

SpecScores == InitScores /\ [][NextScores]_vars

----------------------------------------------------------------------------
(* Properties.                                                             *)

\* A simulated tick was taken: update ran lines 233-332.
SimTick == ticks' = ticks + 1

Normals == 1..Len(aliens)

Heavies == 1..Len(heavyAliens)

\* The bullets of the tick's result that a hit deactivated.  Line 261 leaves
\* only active bullets before the collision loop, so a bullet that is
\* inactive after the tick was deactivated at line 303 or 312.
Consumed == {b \in 1..Len(bullets') : ~bullets'[b].active}

\* The normal aliens and heavy aliens the tick deactivated.
NormalKilled == {k \in Normals : aliens[k].active /\ ~aliens'[k].active}

HeavyKilled == {k \in Heavies : heavyAliens[k].active /\ ~heavyAliens'[k].active}

\* One element per hit point that the tick took from a heavy alien.
HeavyHits ==
    {<<k, n>> \in Heavies \X (1..HeavyHp(currentLevel)) :
        n <= heavyAliens[k].hp - heavyAliens'[k].hp}

\* C1: after every tick, whatever keys are held, the player's x is within
\* 0 .. canvasWidth - player.width (0..760 pixels).
C1_PlayerInBounds ==
    0 <= player.x /\ player.x <= Px(CANVAS_WIDTH) - player.width

\* The player stands at the left edge after two ticks with ArrowLeft held:
\* the second tick found x = 0 and did not move.
C1_Witness ==
    player.x = 0 /\ keys.ArrowLeft /\ ticks = 2 /\ currentState = "PLAYING"

\* C2: while the fire key stays held without a release, the simulated ticks
\* spawn exactly one bullet, on the first of them, and none afterwards.
C2_OneBulletPerHold ==
    keys.Space /\ hold.ticks >= 1 => hold.shots = 1

\* C3: in collision resolution a normal alien is deactivated only by a
\* bullet that overlaps it and is deactivated with it, each such alien adds
\* exactly 10 to the score (a heavy alien adds 50 when it falls), an alien
\* that was inactive stays as it was, and no active bullet is left
\* overlapping an active normal alien.
C3_NormalHit ==
    [][SimTick =>
        /\ \A k \in NormalKilled :
              \E b \in Consumed : rectIntersect(bullets'[b], aliens'[k])
        /\ score' = score + NORMAL_SCORE * Cardinality(NormalKilled)
                          + HEAVY_SCORE * Cardinality(HeavyKilled)
        /\ \A k \in Normals :
              /\ ~aliens[k].active => ~aliens'[k].active
              /\ aliens'[k].hp = aliens[k].hp
        /\ \A k \in Normals, b \in 1..Len(bullets') :
              aliens'[k].active /\ bullets'[b].active
                  => ~rectIntersect(bullets'[b], aliens'[k])
        /\ \A b \in Consumed :
              \/ \E k \in NormalKilled : rectIntersect(bullets'[b], aliens'[k])
              \/ \E h \in HeavyHits :
                    rectIntersect(bullets'[b], heavyAliens'[h[1]])
    ]_vars

\* A bullet has just destroyed a normal alien: both are inactive and overlap.
C3_Witness ==
    /\ score >= NORMAL_SCORE
    /\ \E b \in 1..Len(bullets), k \in Normals :
          /\ ~bullets[b].active
          /\ ~aliens[k].active
          /\ rectIntersect(bullets[b], aliens[k])

\* C4: a hit on an active heavy alien takes exactly one hp and deactivates
\* the bullet; the alien is inactive exactly when its hp is <= 0, which the
\* 4 + floor((level-1)/3) hits of its initial hp bring about, and only the
\* tick of that last hit adds 50 to the score.
C4_HeavyHit ==
    [][SimTick =>
        /\ \A k \in Heavies :
              /\ heavyAliens'[k].hp <= heavyAliens[k].hp
              /\ heavyAliens'[k].hp >= 0
              /\ heavyAliens'[k].hp <= HeavyHp(currentLevel)
              /\ heavyAliens'[k].active <=> heavyAliens'[k].hp > 0
              /\ ~heavyAliens[k].active => heavyAliens'[k].hp = heavyAliens[k].hp
              /\ heavyAliens[k].hp - heavyAliens'[k].hp <=
                    Cardinality({b \in Consumed :
                        rectIntersect(bullets'[b], heavyAliens'[k])})
        /\ Cardinality(HeavyHits) <= Cardinality(Consumed)
        /\ score' = score + NORMAL_SCORE * Cardinality(NormalKilled)
                          + HEAVY_SCORE * Cardinality(
                                {k \in Heavies : heavyAliens[k].hp > 0
                                                 /\ heavyAliens'[k].hp <= 0})
    ]_vars

\* A heavy alien has just fallen to its last hit: hp 0, inactive, overlapped
\* by the inactive bullet, and the 50 points are in the score.
C4_Witness ==
    /\ score >= HEAVY_SCORE
    /\ \E b \in 1..Len(bullets), k \in Heavies :
          /\ ~bullets[b].active
          /\ ~heavyAliens[k].active
          /\ heavyAliens[k].hp = 0
          /\ rectIntersect(bullets[b], heavyAliens[k])

\* C5: within one tick a bullet hits at most one alien of the two
\* formations: the hits of the tick (normal aliens deactivated plus hp taken
\* from heavy aliens) are as many as the bullets it deactivated.
C5_OneHitPerBullet ==
    [][SimTick =>
        Cardinality(Consumed) =
            Cardinality(NormalKilled) + Cardinality(HeavyHits)
    ]_vars

\* A bullet that overlapped two aliens hit one: it is inactive over the
\* normal alien it destroyed, and the heavy alien it also overlaps is still
\* active.
C5_Witness ==
    \E b \in 1..Len(bullets) :
        /\ ~bullets[b].active
        /\ \E k \in Normals :
              ~aliens[k].active /\ rectIntersect(bullets[b], aliens[k])
        /\ \E k \in Heavies :
              /\ heavyAliens[k].active
              /\ rectIntersect(bullets[b], heavyAliens[k])

\* The leaderboard an item holds, when its text is that of a JSON array.
ValidStore(item) ==
    LET r == JSONparse(ItemOrEmpty(item)) IN ~r.threw /\ r.isArray

Leaderboard(item) == JSONparse(ItemOrEmpty(item)).value

Count(entries, e) == Cardinality({i \in DOMAIN entries : entries[i] = e})

\* kept is the top TOP_SCORES of all: as long as all up to that number, made
\* of entries of all, and no entry left out has a higher score than one kept.
IsTopOf(kept, all) ==
    /\ Len(kept) = Min(Len(all), TOP_SCORES)
    /\ \A i \in DOMAIN kept : Count(kept, kept[i]) <= Count(all, kept[i])
    /\ \A j \in DOMAIN all :
          Count(all, all[j]) > Count(kept, all[j])
              => \A i \in DOMAIN kept : kept[i].score >= all[j].score

\* C6: a saveScore call on an absent or valid leaderboard leaves a valid
\* one of at most 5 entries, sorted non-increasing by score, that holds the
\* 5 highest scores among the previous entries and the new one.
C6_TopFive ==
    [][\A name \in SavedNames, points \in SavedScores :
          ValidStore(storage) /\ RecordScore(name, points) =>
              /\ ValidStore(storage')
              /\ uncaught' = NoError
              /\ LET kept == Leaderboard(storage')
                     all  == Append(Leaderboard(storage),
                                    [name |-> name, score |-> points])
                 IN  /\ Len(kept) <= TOP_SCORES
                     /\ \A i \in 1..(Len(kept) - 1) :
                           kept[i].score >= kept[i + 1].score
                     /\ IsTopOf(kept, all)
    ]_vars

\* A full leaderboard took a new best score and dropped its lowest entry.
C6_Witness ==
    /\ ValidStore(storage)
    /\ Len(Leaderboard(storage)) = TOP_SCORES
    /\ Leaderboard(storage)[1].score = 60
    /\ Leaderboard(storage)[TOP_SCORES].score >= 10

\* C7: getHighScores never throws, and on an absent item returns the empty
\* list.
C7_LoadNeverThrows ==
    /\ uncaught.fn # "getHighScores"
    /\ ~storage.set => getHighScores(storage) = Parsed(<<>>)

\* C8: saveScore(name, score) on an absent or malformed leaderboard ends
\* without error and leaves the leaderboard of the single entry
\* [{name, score}].
C8_SaveTreatsMalformedAsEmpty ==
    [][\A name \in SavedNames, points \in SavedScores :
          (~storage.set \/ JSONparse(ItemOrEmpty(storage)).threw)
              /\ RecordScore(name, points) =>
                  /\ uncaught' = NoError
                  /\ storage' = Item(JSONstringify(
                                    <<[name |-> name, score |-> points]>>))
    ]_vars

\* C9: every frame runs update and draw to their end and requests the next
\* frame, so the frame callback is armed in every reachable state.
C9_FrameLoopArmed == raf

\* C10 as stated: in LEVEL_TRANSITION a frame adds its elapsed time to the
\* timer, the frame that brings it to 3000 ms or more starts the next
\* level, and a frame that leaves it below 3000 ms stays.
C10_TransitionAtLimit ==
    [][\A deltaTime \in DeltaTimes :
          currentState = "LEVEL_TRANSITION" /\ Frame(deltaTime) =>
              /\ transitionTimer + deltaTime >= TRANSITION_MS
                    => currentState' = "PLAYING"
              /\ transitionTimer + deltaTime < TRANSITION_MS
                    => /\ currentState' = "LEVEL_TRANSITION"
                       /\ transitionTimer' = transitionTimer + deltaTime
    ]_vars

\* C10: in LEVEL_TRANSITION a frame adds its elapsed time to the timer; the
\* frame that brings it above 3000 ms starts the next level with the timer
\* back at 0, and a frame that leaves it at 3000 ms or below stays in
\* LEVEL_TRANSITION.
C10_TransitionAboveLimit ==
    [][\A deltaTime \in DeltaTimes :
          currentState = "LEVEL_TRANSITION" /\ Frame(deltaTime) =>
              /\ transitionTimer + deltaTime > TRANSITION_MS
                    => /\ currentState' = "PLAYING"
                       /\ currentLevel' = currentLevel + 1
                       /\ transitionTimer' = 0
                       /\ score' = score
              /\ transitionTimer + deltaTime <= TRANSITION_MS
                    => /\ currentState' = "LEVEL_TRANSITION"
                       /\ transitionTimer' = transitionTimer + deltaTime
                       /\ currentLevel' = currentLevel
    ]_vars

\* The countdown stands at exactly 3000 ms and the level has not started.
C10_Witness ==
    currentState = "LEVEL_TRANSITION" /\ transitionTimer = TRANSITION_MS

\* Every member of the formation is active.
FullyActive(formation) == \A k \in DOMAIN formation : formation[k].active

\* C11: the step that ends a level transition raises the level by exactly
\* 1, keeps the score, resets the timer to 0, clears the bullets, leaves
\* both formations of the new level's size fully active (heavy aliens at
\* full hp) with direction +1, and enters PLAYING.
C11_TransitionCompletes ==
    [][currentState = "LEVEL_TRANSITION" /\ currentState' # currentState =>
        /\ currentState' = "PLAYING"
        /\ currentLevel' = currentLevel + 1
        /\ score' = score
        /\ transitionTimer' = 0
        /\ bullets' = <<>>
        /\ ~gameOver'
        /\ Len(aliens') = NormalRows(currentLevel') * NormalCols(currentLevel')
        /\ Len(heavyAliens') = HeavyCount(currentLevel')
        /\ FullyActive(aliens')
        /\ FullyActive(heavyAliens')
        /\ \A k \in DOMAIN heavyAliens' :
              heavyAliens'[k].hp = HeavyHp(currentLevel')
        /\ alienDirection' = 1
        /\ heavyAlienDirection' = 1
    ]_vars

\* Level 2 has just begun: the 470 points of level 1 are kept and the 32
\* normal and 3 heavy aliens of the new level are all active.
C11_Witness ==
    /\ currentState = "PLAYING"
    /\ currentLevel = 2
    /\ score = 470
    /\ transitionTimer = 0
    /\ bullets = <<>>
    /\ Len(aliens) = 32 /\ FullyActive(aliens)
    /\ Len(heavyAliens) = 3 /\ FullyActive(heavyAliens)

\* The changes of state that the handlers make: keydown (lines 82-98),
\* handleMouseClick (lines 176-208) and update (lines 216-231, 328-331).
Transitions ==
    {<<"MENU", "NAME_INPUT">>, <<"MENU", "SCOREBOARD">>, <<"MENU", "CREDITS">>,
     <<"NAME_INPUT", "PLAYING">>,
     <<"PLAYING", "PAUSED">>, <<"PLAYING", "GAME_OVER">>,
     <<"PLAYING", "LEVEL_TRANSITION">>,
     <<"PAUSED", "PLAYING">>, <<"PAUSED", "MENU">>,
     <<"LEVEL_TRANSITION", "PLAYING">>,
     <<"GAME_OVER", "MENU">>, <<"SCOREBOARD", "MENU">>, <<"CREDITS", "MENU">>}

\* C12: the page starts in MENU, the state is always one of the 8 modes,
\* and every change of state under frames, key events and clicks is one of
\* the listed transitions.
C12_OnlyListedTransitions ==
    /\ \A item \in StoredItems : Constructed(item).currentState = "MENU"
    /\ [](currentState \in GameState)
    /\ [][currentState' # currentState
             => <<currentState, currentState'>> \in Transitions]_vars

\* The credits screen, opened from the menu after a session was played,
\* paused and left: the name typed for that session is still there.
C12_Witness ==
    currentState = "CREDITS" /\ playerName # <<>> /\ ticks >= 1

\* A step that starts a session anew: resetGame() from the Enter key of the
\* name screen (line 97) or from the Menu button of the pause screen
\* (line 202).
SessionReset ==
    <<currentState, currentState'>> \in
        {<<"NAME_INPUT", "PLAYING">>, <<"PAUSED", "MENU">>}

\* C13: the score is never negative, and between two session resets it
\* changes only in a simulated PLAYING tick, where it grows by 10 for each
\* normal alien and 50 for each heavy alien that the tick destroyed; key
\* events, clicks, pausing and level transitions leave it alone.
C13_ScoreOnlyGrowsByKills ==
    /\ [](score >= 0)
    /\ [][score' # score =>
            \/ /\ SimTick
               /\ score' > score
               /\ score' = score + NORMAL_SCORE * Cardinality(NormalKilled)
                                 + HEAVY_SCORE * Cardinality(HeavyKilled)
            \/ /\ SessionReset
               /\ score' = 0
       ]_vars

\* The game was paused right after the tick that destroyed the first heavy
\* alien: twelve normal aliens and one heavy alien make 170 points.
C13_Witness ==
    /\ currentState = "PAUSED"
    /\ score = 170
    /\ Cardinality({k \in Normals : ~aliens[k].active}) = 12
    /\ Cardinality({k \in Heavies : ~heavyAliens[k].active}) = 1

\* A step that builds the formations anew: a session reset, or the end of
\* a level transition (resetGame(false), line 221).
Regenerated ==
    \/ SessionReset
    \/ currentState = "LEVEL_TRANSITION" /\ currentState' = "PLAYING"

\* C14: every heavy alien's hp is between 0 and 4 + floor((level-1)/3);
\* within a level it never grows, and the hp of an inactive heavy alien
\* does not change, so it never goes below 0.
C14_HeavyHpMonotone ==
    /\ [](\A k \in Heavies :
            /\ heavyAliens[k].hp >= 0
            /\ heavyAliens[k].hp <= 4 + (currentLevel - 1) \div 3)
    /\ [][~Regenerated =>
            /\ Len(heavyAliens') = Len(heavyAliens)
            /\ \A k \in Heavies :
                  /\ heavyAliens'[k].hp <= heavyAliens[k].hp
                  /\ ~heavyAliens[k].active =>
                        /\ heavyAliens'[k].hp = heavyAliens[k].hp
                        /\ ~heavyAliens'[k].active
       ]_vars

\* One heavy alien is down at hp 0 and another has taken some of its hits.
C14_Witness ==
    ticks >= 1 /\ \E k, j \in Heavies :
        /\ ~heavyAliens[k].active /\ heavyAliens[k].hp = 0
        /\ heavyAliens[j].active
        /\ heavyAliens[j].hp >= 1
        /\ heavyAliens[j].hp < 4 + (currentLevel - 1) \div 3

\* The points of the formations of levels 1..level: 10 for each normal
\* alien and 50 for each heavy alien that resetGame builds (lines 135-137).
RECURSIVE LevelsScore(_)
LevelsScore(level) ==
    IF level <= 0 THEN 0
    ELSE LevelsScore(level - 1)
         + NORMAL_SCORE * NormalRows(level) * NormalCols(level)
         + HEAVY_SCORE * HeavyCount(level)

\* C15: the score is the points of the levels cleared so far plus those of
\* the aliens destroyed in the current one, so when a tick has triggered
\* LEVEL_TRANSITION at level L it is the sum over levels 1..L of
\* 10 x normal aliens + 50 x heavy aliens; for level 1 that is 470.
C15_ScoreAtLevelClear ==
    /\ score = LevelsScore(currentLevel - 1)
               + NORMAL_SCORE * Cardinality({k \in Normals : ~aliens[k].active})
               + HEAVY_SCORE * Cardinality({k \in Heavies : ~heavyAliens[k].active})
    /\ currentState = "LEVEL_TRANSITION" => score = LevelsScore(currentLevel)
    /\ LevelsScore(1) = 32 * 10 + 3 * 50
    /\ LevelsScore(1) = 470

\* Level 1 has just been cleared: all 32 normal and 3 heavy aliens are
\* inactive, every heavy alien took its 4 hits, and the score is 470.
C15_Witness ==
    /\ currentState = "LEVEL_TRANSITION"
    /\ currentLevel = 1
    /\ transitionTimer = 0
    /\ score = 470
    /\ Len(aliens) = 32 /\ \A k \in Normals : ~aliens[k].active
    /\ Len(heavyAliens) = 3 /\ \A k \in Heavies : heavyAliens[k].hp = 0

\* Whether the horizontal shift of a tick brings an active member of the
\* formation to a side of the canvas (lines 267-270 and 284-287).
Touches(formation, speed, direction) ==
    \E k \in DOMAIN formation :
        /\ formation[k].active
        /\ \/ formation[k].x + speed * direction <= 0
           \/ formation[k].x + speed * direction
                  >= Px(CANVAS_WIDTH) - formation[k].width

\* What a tick does to a formation: with a member at a wall the direction
\* flips and every member, active or not, is 20 pixels lower; without one
\* the direction and every y stay.
FlipsAndDrops(touches, before, after, direction, directionAfter) ==
    /\ Len(after) = Len(before)
    /\ touches =>
          /\ directionAfter = -direction
          /\ \A k \in DOMAIN before :
                after[k].y = before[k].y + Px(ALIEN_DROP_DISTANCE)
    /\ ~touches =>
          /\ directionAfter = direction
          /\ \A k \in DOMAIN before : after[k].y = before[k].y

\* C16: in a simulated tick each formation flips its direction and drops
\* all its members by 20 in the very tick in which the shift brings an
\* active member to x <= 0 or x >= canvasWidth - width, and otherwise keeps
\* its direction and every y; the two formations do so independently.
C16_WallBounce ==
    [][SimTick =>
        /\ FlipsAndDrops(Touches(aliens, alienSpeed, alienDirection),
                         aliens, aliens', alienDirection, alienDirection')
        /\ FlipsAndDrops(Touches(heavyAliens, heavyAlienSpeed,
                                 heavyAlienDirection),
                         heavyAliens, heavyAliens',
                         heavyAlienDirection, heavyAlienDirection')
    ]_vars

\* The heavy formation has just met the left wall for the first time: its
\* first member is at x = 0, two drops down, moving right again, while the
\* normal formation has not yet met a wall.
C16_Witness ==
    /\ ticks = 1
    /\ heavyAliens[1].active
    /\ heavyAliens[1].x = 0
    /\ heavyAliens[1].y = Px(20) + 2 * Px(ALIEN_DROP_DISTANCE)
    /\ heavyAlienDirection = 1
    /\ alienDirection = 1
    /\ aliens[1].y = Px(80)

\* An active alien of the formation stands at or below the player's top
\* (lines 322-323).
AtPlayerRow(formation, p) ==
    \E k \in DOMAIN formation :
        formation[k].active /\ formation[k].y + formation[k].height >= p.y

\* The leaderboard item holds the entry of the session.
Persisted(item, name, points) ==
    /\ ValidStore(item)
    /\ \E i \in DOMAIN Leaderboard(item) :
          Leaderboard(item)[i] = [name |-> name, score |-> points]

\* C17: a simulated tick that leaves an active alien of either formation
\* at or below the player's row marks the session over and persists the
\* entry (playerName, score); GAME_OVER is entered only from PLAYING, with
\* the session marked over and its entry persisted.
C17_GameOverPersists ==
    [][/\ SimTick /\ (\/ AtPlayerRow(aliens', player')
                      \/ AtPlayerRow(heavyAliens', player'))
          => gameOver' /\ Persisted(storage', playerName, score')
       /\ currentState' = "GAME_OVER" /\ currentState # "GAME_OVER"
          => /\ currentState = "PLAYING"
             /\ gameOver
             /\ Persisted(storage, playerName, score)
    ]_vars

\* The characters A-Z and 0-9.
UpperAlnum ==
    {"A", "B", "C", "D", "E", "F", "G", "H", "I", "J", "K", "L", "M",
     "N", "O", "P", "Q", "R", "S", "T", "U", "V", "W", "X", "Y", "Z",
     "0", "1", "2", "3", "4", "5", "6", "7", "8", "9"}

\* The name after a keydown of e (lines 90-95).
NameAfterKey(e) ==
    IF currentState # "NAME_INPUT" THEN playerName
    ELSE IF e.key \in {"a", "A", "1"}
    THEN IF Len(playerName) < 10
         THEN Append(playerName, IF e.key = "a" THEN "A" ELSE e.key)
         ELSE playerName
    ELSE IF e.key = "Backspace" /\ playerName # <<>>
    THEN SubSeq(playerName, 1, Len(playerName) - 1)
    ELSE playerName

\* C18: playerName always has at most 10 characters, all of A-Z and 0-9; in
\* NAME_INPUT an alphanumeric key appends its uppercased character while
\* the name is shorter than 10, Backspace removes the last character and
\* any other key leaves the name as it is; outside NAME_INPUT no key event
\* changes it.
C18_NameAlphanumeric ==
    /\ [](/\ Len(playerName) <= 10
          /\ \A k \in DOMAIN playerName : playerName[k] \in UpperAlnum)
    /\ [][/\ \A e \in KeyEvents : playerName' = NameAfterKey(e) \/ ~KeyDown(e)
          /\ \A code \in TrackedCodes : playerName' = playerName \/ ~KeyUp(code)
      ]_vars

\* The name is full: ten characters on the name screen.
C18_Witness ==
    currentState = "NAME_INPUT" /\ Len(playerName) = MAX_NAME_LENGTH

EnterKey == [code |-> "Enter", key |-> "Enter"]

\* A session as resetGame() leaves it: level 1, no points, not over, no
\* bullets, the 32 normal and 3 heavy aliens of level 1 all active, the
\* heavy ones at hp 4.
FreshSession ==
    /\ currentLevel = 1
    /\ score = 0
    /\ ~gameOver
    /\ bullets = <<>>
    /\ Len(aliens) = 32 /\ FullyActive(aliens)
    /\ Len(heavyAliens) = 3 /\ FullyActive(heavyAliens)
    /\ \A k \in Heavies : heavyAliens[k].hp = 4

\* C19: Enter on the name screen changes nothing while the name is empty,
\* and with a name it starts a fresh session in PLAYING; PLAYING is entered
\* from NAME_INPUT only with a name and a fresh session, and the Menu
\* button of the pause screen makes the same reset on its way to MENU.
C19_EnterStartsFreshSession ==
    [][/\ currentState = "NAME_INPUT" /\ playerName = <<>>
          => UNCHANGED world \/ ~KeyDown(EnterKey)
       /\ currentState = "NAME_INPUT" /\ playerName # <<>>
          => \/ currentState' = "PLAYING" /\ FreshSession'
             \/ ~KeyDown(EnterKey)
       /\ currentState = "NAME_INPUT" /\ currentState' = "PLAYING"
          => playerName # <<>> /\ playerName' = playerName /\ FreshSession'
       /\ currentState = "PAUSED" /\ currentState' = "MENU"
          => FreshSession'
    ]_vars

\* A second session was started under the name "1" after the first one was
\* paused and left: it is fresh.
C19_Witness ==
    currentState = "PLAYING" /\ playerName = <<"1">> /\ FreshSession

\* The inactive members of a formation are where they were.
InactiveStay(before, after) ==
    \A k \in DOMAIN before :
        ~before[k].active =>
            after[k].x = before[k].x /\ after[k].y = before[k].y

\* C20: a tick changes neither x nor y of an inactive alien, and the
\* bullets that the frame of the tick paints are all active.
C20_InactiveInert ==
    [][SimTick =>
        /\ InactiveStay(aliens, aliens')
        /\ InactiveStay(heavyAliens, heavyAliens')
        /\ \A b \in DrawnBullets(World') : b.active
    ]_vars

\* The bullets that the advance of a tick keeps (lines 257-261): the active
\* ones that are still on the canvas one step higher.
Surviving == {k \in DOMAIN bullets :
                 bullets[k].active /\ bullets[k].y - Px(BULLET_SPEED) >= 0}

\* The bullet hit an alien in this tick: it overlaps a normal alien that the
\* tick destroyed or a heavy alien that lost hp in it.
HitInTick(b) ==
    \/ \E k \in NormalKilled : rectIntersect(bullets'[b], aliens'[k])
    \/ \E h \in HeavyHits : rectIntersect(bullets'[b], heavyAliens'[h[1]])

\* No step outside the simulation touches the bullets, but for a reset.
BulletsUntouched == bullets' = bullets \/ bullets' = <<>>

\* C21 as stated: at the end of every simulated tick the collection holds
\* active bullets only, and no other step changes a bullet.
C21_OnlyActiveAfterTick ==
    [][/\ SimTick => \A b \in DOMAIN bullets' : bullets'[b].active
       /\ ~SimTick => BulletsUntouched
    ]_vars

\* C21: every simulated tick drops the bullets that were inactive before it
\* and those that leave the top of the canvas, so after it the collection
\* holds the surviving bullets and the one it spawned, all on the canvas;
\* the only inactive ones among them are those that hit an alien in this
\* very tick, which the next simulated tick drops; no bullet's flag goes
\* from false to true.
C21_PurgedNextTick ==
    [][/\ SimTick =>
            /\ Len(bullets') = Cardinality(Surviving)
                               + Cardinality(Spawned(bullets', player'))
            /\ \A b \in DOMAIN bullets' : bullets'[b].y >= 0
            /\ \A b \in Consumed : HitInTick(b)
       /\ ~SimTick => BulletsUntouched
    ]_vars

\* The game was paused on a tick in which one bullet left the top of the
\* canvas and another hit an alien: the first is gone, the second is still
\* in the collection, inactive, and the oldest bullet left is the one fired
\* five ticks after the one that is gone.
C21_Witness ==
    /\ currentState = "PAUSED"
    /\ ticks = 1
    /\ Len(bullets) = 15
    /\ bullets[1].y < Px(5 * BULLET_SPEED)
    /\ \E b \in DOMAIN bullets : ~bullets[b].active

\* C22: the first simulated tick after a press of the fire key that found
\* the key up, with the key still held, spawns exactly one bullet, at the
\* player's horizontal centre and top, whatever happened between the
\* release and the press.
C22_RisingEdgeFires ==
    [][SimTick /\ keys.Space /\ hold.ticks = 0 =>
        /\ Cardinality(Spawned(bullets', player')) = 1
        /\ \A k \in Spawned(bullets', player') :
              /\ bullets'[k].x = player'.x + player'.width \div 2 - Px(2)
              /\ bullets'[k].y + Px(BULLET_SPEED) = player'.y
    ]_vars

\* What the simulation owns: the player, the bullets, both formations and
\* their directions, the score, the level and the debounce flag of the fire
\* key (lines 233-332).
Simulated ==
    <<player, bullets, aliens, heavyAliens, alienDirection,
      heavyAlienDirection, score, currentLevel, keys.SpaceLocked>>

\* C23: a frame in a state other than PLAYING that does not end the
\* countdown of a level transition leaves the player, the bullets, both
\* formations, their directions, the score, the level and the debounce
\* flag as they were, whatever keys are held.
C23_IdleOutsidePlaying ==
    [][\A deltaTime \in DeltaTimes :
          \/ UNCHANGED Simulated
          \/ currentState = "PLAYING"
          \/ /\ currentState = "LEVEL_TRANSITION"
             /\ CountdownOver(transitionTimer + deltaTime)
          \/ ~Frame(deltaTime)
    ]_vars

\* Two frames have run in a level transition with the left arrow and the
\* fire key held: the countdown stands at 2500 ms, the bullet of the last
\* hit is still there and the debounce flag is clear.
C23_Witness ==
    /\ currentState = "LEVEL_TRANSITION"
    /\ transitionTimer = 2500
    /\ keys.ArrowLeft /\ keys.Space /\ ~keys.SpaceLocked
    /\ bullets # <<>>

-----------------------------------------------------------------------------
(* The generation of the formations at every level: resetGame reads the    *)
(* level and overwrites the rest, so the level is drawn from 1..MaxLevel.  *)

\* Level `level` has just been cleared: the state that the level-complete
\* check of lines 328-331 leaves, with the formations of that level all
\* inactive, the score of the levels so far, and everything that resetGame
\* is about to overwrite (positions, player) as it was built.
Cleared(level) ==
    LET g == resetGame([Constructed(NoItem) EXCEPT !.currentLevel = level,
                                                   !.playerName = <<"A">>],
                       FALSE)
    IN  [g EXCEPT !.currentState = "LEVEL_TRANSITION",
                  !.transitionTimer = 0,
                  !.score = LevelsScore(level),
                  !.aliens = [k \in DOMAIN @ |-> [@[k] EXCEPT !.active = FALSE]],
                  !.heavyAliens = [k \in DOMAIN @ |->
                                      [@[k] EXCEPT !.active = FALSE, !.hp = 0]]]

\* A frame on any screen but the running game: the countdown of the level
\* transition and the menus.
FrameOutsidePlay(deltaTime) ==
    /\ currentState # "PLAYING"
    /\ Frame(deltaTime)

NextLevels ==
    \/ \E e \in KeyEvents : KeyDown(e)
    \/ \E code \in TrackedCodes : KeyUp(code)
    \/ \E p \in ClickPoints : MouseDown(p)
    \/ \E deltaTime \in DeltaTimes : FrameOutsidePlay(deltaTime)

InitLevels ==
    /\ \E level \in 1..MaxLevel : Is(Cleared(level))
    /\ ticks = 0
    /\ hold = NoHold

SpecLevels == InitLevels /\ [][NextLevels]_vars

\* C24: every step that builds the formations, at the level L it builds
\* them for, makes min(4 + floor((L-1)/2), 6) x min(8 + floor((L-1)/3), 10)
\* normal aliens of hp 1 and min(3 + floor((L-1)/2), 6) heavy aliens of hp
\* 4 + floor((L-1)/3), all active, and sets the speeds to
\* base x (1 + (L-1) x 0.3) with base 1 and 2.
C24_FormationByLevel ==
    [][Regenerated =>
        LET L == currentLevel'
        IN  /\ L >= 1
            /\ Len(aliens') = Min(4 + (L - 1) \div 2, 6) * Min(8 + (L - 1) \div 3, 10)
            /\ \A k \in DOMAIN aliens' : aliens'[k].active /\ aliens'[k].hp = 1
            /\ Len(heavyAliens') = Min(3 + (L - 1) \div 2, 6)
            /\ \A k \in DOMAIN heavyAliens' :
                  /\ heavyAliens'[k].active
                  /\ heavyAliens'[k].hp = 4 + (L - 1) \div 3
            /\ 10 * alienSpeed' = Px(1) * (10 + (L - 1) * 3)
            /\ 10 * heavyAlienSpeed' = Px(2) * (10 + (L - 1) * 3)
    ]_vars

\* Level 8 has begun: 60 normal aliens, 6 heavy aliens of hp 6, speeds of
\* 3.1 and 6.2 pixels per tick.
C24_Witness ==
    /\ currentState = "PLAYING"
    /\ currentLevel = 8
    /\ Len(aliens) = 60 /\ FullyActive(aliens)
    /\ Len(heavyAliens) = 6 /\ FullyActive(heavyAliens)
    /\ \A k \in Heavies : heavyAliens[k].hp = 6
    /\ alienSpeed = 31 /\ heavyAlienSpeed = 62

\* Every alien of both formations is inactive.
AllGone ==
    /\ \A k \in Normals : ~aliens[k].active
    /\ \A k \in Heavies : ~heavyAliens[k].active

\* C25: a simulated tick ends in LEVEL_TRANSITION exactly when it leaves
\* every alien of both formations inactive, and then the timer is 0 and the
\* session is not marked over; LEVEL_TRANSITION is never the state while an
\* alien is active.
C25_LevelCompleteIff ==
    /\ [](currentState = "LEVEL_TRANSITION" => AllGone)
    /\ [][SimTick =>
            /\ currentState' = "LEVEL_TRANSITION" <=> AllGone'
            /\ currentState' = "LEVEL_TRANSITION"
                  => transitionTimer' = 0 /\ ~gameOver'
       ]_vars

\* The tick of the last hit has just ended: the bullet that hit is still in
\* the collection, no alien is active, the countdown starts at 0 and the
\* session is not over.
C25_Witness ==
    /\ currentState = "LEVEL_TRANSITION"
    /\ ticks = 1
    /\ transitionTimer = 0
    /\ ~gameOver
    /\ AllGone
    /\ \E b \in DOMAIN bullets : ~bullets[b].active

-----------------------------------------------------------------------------
(* The end of level 1 under the scheduling of the frame callback: the     *)
(* run starts one tick before the last hit of the sweep, and since         *)
(* gameLoop re-arms itself at line 864, a frame eventually runs while the  *)
(* callback is scheduled.                                                  *)

InitLastShot ==
    /\ Is(Replay(StartSession(Constructed(NoItem)), Sweep, 1, 539))
    /\ ticks = 0
    /\ hold = NoHold

\* A frame of the countdown.
TransitionFrame(deltaTime) ==
    /\ currentState = "LEVEL_TRANSITION"
    /\ Frame(deltaTime)

SpecLastShotFair ==
    /\ InitLastShot
    /\ [][Next]_vars
    /\ WF_vars(\E deltaTime \in DeltaTimes : TransitionFrame(deltaTime))

\* C27: in LEVEL_TRANSITION only a frame changes the state, the timer, the
\* level or the score - no key and no click does - and the transition of
\* level 1 leads to PLAYING at level 2.
C27_TransitionUndisturbed ==
    /\ [][\/ currentState # "LEVEL_TRANSITION"
          \/ UNCHANGED <<currentState, transitionTimer, currentLevel, score>>
          \/ \E deltaTime \in DeltaTimes : Frame(deltaTime)
       ]_vars
    /\ (currentState = "LEVEL_TRANSITION" /\ currentLevel = 1)
          ~> (currentState = "PLAYING" /\ currentLevel = 2)

\* Level 2 has begun with the left arrow and the fire key held: they were
\* pressed during the transition, which went on all the same.
C27_Witness ==
    /\ currentState = "PLAYING"
    /\ currentLevel = 2
    /\ ticks = 1
    /\ keys.ArrowLeft /\ keys.Space /\ ~keys.SpaceLocked
    /\ FullyActive(aliens)

-----------------------------------------------------------------------------
(* The end of a level: a measure that every simulated tick lowers.         *)

\* The hit points left in both formations: 1 for each active normal alien
\* (line 302) and the hp of each heavy alien (lines 311-313).
RECURSIVE HeavyHpSum(_)
HeavyHpSum(k) ==
    IF k = 0 THEN 0 ELSE heavyAliens[k].hp + HeavyHpSum(k - 1)

HpLeft ==
    Cardinality({k \in Normals : aliens[k].active}) + HeavyHpSum(Len(heavyAliens))

\* The formation that is watched: the normal one while it has an active
\* member, the heavy one afterwards, with its direction.
Watched ==
    IF \E k \in Normals : aliens[k].active
    THEN [members |-> {aliens[k] : k \in {n \in Normals : aliens[n].active}},
          direction |-> alienDirection]
    ELSE [members |-> {heavyAliens[k] : k \in {h \in Heavies : heavyAliens[h].active}},
          direction |-> heavyAlienDirection]

\* The drops of ALIEN_DROP_DISTANCE (lines 276 and 293) that the lowest
\* active member is away from the player's row (lines 322-323).
DropsLeft ==
    LET bottoms == {a.y + a.height : a \in Watched.members}
        lowest  == CHOOSE y \in bottoms : \A z \in bottoms : z <= y
    IN  (player.y - lowest + Px(ALIEN_DROP_DISTANCE) - 1) \div Px(ALIEN_DROP_DISTANCE)

\* The way to the wall ahead (lines 268 and 285): from the rightmost active
\* member to the right side, or from the leftmost one to the left side.
WayToWall ==
    LET m  == Watched.members
        xs == {a.x : a \in m}
        w  == (CHOOSE a \in m : TRUE).width
    IN  IF Watched.direction = 1
        THEN Px(CANVAS_WIDTH) - w - (CHOOSE x \in xs : \A z \in xs : z <= x)
        ELSE CHOOSE x \in xs : \A z \in xs : x <= z

\* Hit points first, then drops, then the way to the wall.
Rank ==
    IF Watched.members = {} THEN 0
    ELSE HpLeft * 1000000 + DropsLeft * 10000 + WayToWall

=============================================================================
